---- MODULE Spec2Model ----
(***************************************************************************)
(* A model of liberator's pipeline: platform detection, extraction,        *)
(* dependency analysis and normalization, and portable export.             *)
(*                                                                         *)
(* Text.  A string is a sequence of lexemes.  A lexeme is either a word    *)
(* (a maximal run of \w characters) or one punctuation character, so the   *)
(* regular expressions of the source, which only tell \w, \s, quotes and   *)
(* a few literal characters apart, act on lexemes as they act on the       *)
(* characters.  A file content is the sequence of its lines, that is       *)
(* content.split('\n'): never empty, the empty text being << <<>> >>.      *)
(* None (Python's None) is the empty sequence, which is no content.        *)
(***************************************************************************)
EXTENDS Integers, Sequences, FiniteSets, TLC

VARIABLES
  src_exists, \* whether the source path exists
  src_is_dir, \* whether it is a directory (a path that exists may be a regular file)
  tree,       \* the source directory: path -> [content, readable]
  phase,      \* position of the caller in the pipeline
  selected,   \* the extractor class detect_platform returned
  result,     \* the ExtractionResult of the selected extractor
  dep_types,  \* DependencyAnalyzer.dep_types of the exporter's analyzer
  out,        \* the output directory: path -> content
  writeLog,   \* the writes of the latest export() call, in order
  ret,        \* the value export() returned
  firstOut,   \* the output directory as the first export() left it
  listed,     \* list(all_deps) of the latest export(): the set's iteration order
  fnIn,       \* argument of the function under test (function specifications)
  fnOut       \* its value

vars == <<src_exists, src_is_dir, tree, phase, selected, result, dep_types, out, writeLog, ret,
          firstOut, listed, fnIn, fnOut>>

pipeVars ==
  <<src_exists, src_is_dir, tree, selected, result, dep_types, out, writeLog, ret, firstOut,
    listed>>

----------------------------------------------------------------------------
(* Bounds *)

MaxFiles == 3
MaxDeps == 3
MaxEnvLines == 2
MaxCodeLines == 2
MaxReuseFiles == 2

----------------------------------------------------------------------------
(* Generic helpers *)

Range(s) == {s[i] : i \in 1..Len(s)}

EmptyMap == [x \in {} |-> <<>>]

\* The element of a one-element set.  Only({F(v) : v \in {e}}) is F(e) with e
\* evaluated once.
Only(S) == CHOOSE x \in S : TRUE

Put(f, k, v) == [x \in (DOMAIN f) \cup {k} |-> IF x = k THEN v ELSE f[x]]

None == <<>>

At(s, i) == IF i \in 1..Len(s) THEN s[i] ELSE ""

Punct == {" ", ".", "=", "#", "'", "\"", "(", ")", "/", "@", ":", ",", ";",
          "{", "}", "[", "]", "-", ">", "<"}

IsSpace(x) == x = " "

IsQuote(x) == x \in {"'", "\""}

IsWord(x) == x # "" /\ x \notin Punct

\* The words of the universe that end with a keyword without being it.
SuffixPairs == {<<"xfrom", "from">>, <<"reuse", "use">>}

EndsWithKw(x, kw) == x = kw \/ <<x, kw>> \in SuffixPairs

\* The least j >= i with s[j] not whitespace; Len(s) + 1 when there is none.
RECURSIVE SkipSpaces(_, _)
SkipSpaces(s, i) ==
  IF i > Len(s) THEN Len(s) + 1
  ELSE IF IsSpace(s[i]) THEN SkipSpaces(s, i + 1) ELSE i

RECURSIVE LStrip(_)
LStrip(s) == IF s # <<>> /\ IsSpace(Head(s)) THEN LStrip(Tail(s)) ELSE s

RECURSIVE RStrip(_)
RStrip(s) ==
  IF s # <<>> /\ IsSpace(s[Len(s)]) THEN RStrip(SubSeq(s, 1, Len(s) - 1)) ELSE s

\* str.strip()
Strip(s) == RStrip(LStrip(s))

\* The index of the first lexeme x in s; 0 when s holds none.
RECURSIVE IndexFrom(_, _, _)
IndexFrom(s, x, i) ==
  IF i > Len(s) THEN 0 ELSE IF s[i] = x THEN i ELSE IndexFrom(s, x, i + 1)

IndexOf(s, x) == IndexFrom(s, x, 1)

Contains(s, x) == IndexOf(s, x) # 0

\* s.split(x)[0]
BeforeFirst(s, x) == IF Contains(s, x) THEN SubSeq(s, 1, IndexOf(s, x) - 1) ELSE s

\* s.split(x, 1)[1], for s holding x
AfterFirst(s, x) == SubSeq(s, IndexOf(s, x) + 1, Len(s))

\* The concatenation of a sequence of sequences.
RECURSIVE Flatten(_)
Flatten(ss) == IF ss = <<>> THEN <<>> ELSE Head(ss) \o Flatten(Tail(ss))

----------------------------------------------------------------------------
(* DependencyAnalyzer: the standard-library exclusion sets *)

PyStdlib ==
  {"os", "sys", "json", "re", "math", "datetime", "collections",
   "itertools", "functools", "pathlib", "typing", "abc", "io",
   "urllib", "http", "socket", "threading", "multiprocessing",
   "subprocess", "shutil", "tempfile", "hashlib", "base64",
   "random", "string", "copy", "pickle", "sqlite3", "csv",
   "xml", "html", "email", "logging", "unittest", "doctest"}

JsStdlib ==
  {"fs", "path", "http", "https", "url", "util", "events",
   "stream", "crypto", "os", "child_process", "cluster",
   "net", "dgram", "dns", "readline", "repl", "vm", "zlib"}

RustStdlib ==
  {"std", "core", "alloc", "collections", "io", "net", "os",
   "path", "process", "sync", "thread", "time", "fmt", "str"}

\* The words of the universe that begin with "org" ('golang.org' is a prefix test).
OrgPrefixed == {"org"}

is_stdlib_python_nofilter(module) == FALSE

is_stdlib_python(module) == module \in {<<w>> : w \in PyStdlib}

is_stdlib_js(module) == module \in {<<w>> : w \in JsStdlib}

is_stdlib_go(module) ==
  \/ Len(module) >= 3 /\ module[1] = "golang" /\ module[2] = "."
       /\ module[3] \in OrgPrefixed
  \/ ~Contains(module, ".")

is_stdlib_rust(crate) == crate \in {<<w>> : w \in RustStdlib}

----------------------------------------------------------------------------
(* DependencyAnalyzer: the scanners.  Each returns the matches of one line *)
(* in the order the source appends them, before the exclusion filter.      *)

\* re.match(r'^kw\s+(\w+)', s), and with dotted r'^kw\s+(\w+)\.': the group as
\* a one-element sequence, or <<>> when the pattern does not match.
PyMatch(s, kw, dotted) ==
  IF At(s, 1) = kw /\ IsSpace(At(s, 2))
  THEN LET j == SkipSpaces(s, 2)
       IN  IF IsWord(At(s, j)) /\ (dotted => At(s, j + 1) = ".")
           THEN << <<s[j]>> >> ELSE <<>>
  ELSE <<>>

PyLineMatches(line) ==
  LET s == Strip(line)
  IN  PyMatch(s, "import", FALSE) \o PyMatch(s, "from", FALSE)
        \o PyMatch(s, "import", TRUE) \o PyMatch(s, "from", TRUE)

\* ['"](\w+)['"] at position q
QuotedWord(s, q) == IsQuote(At(s, q)) /\ IsWord(At(s, q + 1)) /\ IsQuote(At(s, q + 2))

\* from\s+['"](\w+)['"] with the literal ending at position j
FromClause(s, j) ==
  /\ EndsWithKw(At(s, j), "from")
  /\ IsSpace(At(s, j + 1))
  /\ QuotedWord(s, SkipSpaces(s, j + 1))

FromWord(s, j) == <<s[SkipSpaces(s, j + 1) + 1]>>

\* import\s+.*\s+from\s+['"](\w+)['"]: the greedy .* takes the last clause.
JsImportFrom(s) ==
  LET starts == {i \in 1..Len(s) : EndsWithKw(s[i], "import") /\ IsSpace(At(s, i + 1))}
      ends(i) == {j \in (i + 3)..Len(s) : IsSpace(s[j - 1]) /\ s[j] = "from" /\ FromClause(s, j)}
      ok == {i \in starts : ends(i) # {}}
  IN  IF ok = {} THEN <<>>
      ELSE LET i == CHOOSE a \in ok : \A b \in ok : a <= b
               j == CHOOSE a \in ends(i) : \A b \in ends(i) : a >= b
           IN  <<FromWord(s, j)>>

\* require\(['"](\w+)['"]\)
RequireHit(s, i) ==
  EndsWithKw(s[i], "require") /\ At(s, i + 1) = "(" /\ QuotedWord(s, i + 2)
    /\ At(s, i + 5) = ")"

RequireWord(s, i) == <<s[i + 3]>>

\* re.findall: the groups of the matches, by starting position.
RequireAll(s) ==
  LET F[i \in 0..Len(s)] ==
        IF i = 0 THEN <<>>
        ELSE F[i - 1] \o (IF RequireHit(s, i) THEN <<RequireWord(s, i)>> ELSE <<>>)
  IN  F[Len(s)]

FromAll(s) ==
  LET F[i \in 0..Len(s)] ==
        IF i = 0 THEN <<>>
        ELSE F[i - 1] \o (IF FromClause(s, i) THEN <<FromWord(s, i)>> ELSE <<>>)
  IN  F[Len(s)]

JsLineMatches(line) == JsImportFrom(line) \o RequireAll(line) \o FromAll(line)

\* The index of the first quote at or after i; 0 when there is none.
RECURSIVE NextQuote(_, _)
NextQuote(s, i) ==
  IF i > Len(s) THEN 0 ELSE IF IsQuote(s[i]) THEN i ELSE NextQuote(s, i + 1)

\* import\s+["']([^"']+)["']
GoHit(s, i) ==
  /\ EndsWithKw(s[i], "import")
  /\ IsSpace(At(s, i + 1))
  /\ LET q == SkipSpaces(s, i + 1)
     IN  IsQuote(At(s, q)) /\ NextQuote(s, q + 1) > q + 1

GoPath(s, i) ==
  LET q == SkipSpaces(s, i + 1) IN SubSeq(s, q + 1, NextQuote(s, q + 1) - 1)

GoLineMatches(s) ==
  LET F[i \in 0..Len(s)] ==
        IF i = 0 THEN <<>>
        ELSE F[i - 1] \o (IF GoHit(s, i) THEN <<GoPath(s, i)>> ELSE <<>>)
  IN  F[Len(s)]

\* use\s+(\w+)::
UseHit(s, i) ==
  /\ EndsWithKw(s[i], "use")
  /\ IsSpace(At(s, i + 1))
  /\ LET j == SkipSpaces(s, i + 1)
     IN  IsWord(At(s, j)) /\ At(s, j + 1) = ":" /\ At(s, j + 2) = ":"

UseWord(s, i) == <<s[SkipSpaces(s, i + 1)]>>

\* extern\s+crate\s+(\w+)
ExternHit(s, i) ==
  /\ EndsWithKw(s[i], "extern")
  /\ IsSpace(At(s, i + 1))
  /\ LET c == SkipSpaces(s, i + 1)
     IN  At(s, c) = "crate" /\ IsSpace(At(s, c + 1))
           /\ IsWord(At(s, SkipSpaces(s, c + 1)))

ExternWord(s, i) == <<s[SkipSpaces(s, SkipSpaces(s, i + 1) + 1)]>>

UseAll(s) ==
  LET F[i \in 0..Len(s)] ==
        IF i = 0 THEN <<>>
        ELSE F[i - 1] \o (IF UseHit(s, i) THEN <<UseWord(s, i)>> ELSE <<>>)
  IN  F[Len(s)]

ExternAll(s) ==
  LET F[i \in 0..Len(s)] ==
        IF i = 0 THEN <<>>
        ELSE F[i - 1] \o (IF ExternHit(s, i) THEN <<ExternWord(s, i)>> ELSE <<>>)
  IN  F[Len(s)]

RustLineMatches(line) == UseAll(line) \o ExternAll(line)

----------------------------------------------------------------------------
(* Paths.  A path is a string of a fixed universe; what the source computes *)
(* from a path's characters is tabulated here.                              *)

\* Path(p).suffix; on this universe p.endswith(ext) is Ext(p) = ext.
Ext(p) ==
  CASE p = "main.py" -> ".py"
    [] p = "src/app.js" -> ".js"
    [] p \in {"main.go", "src/util.go"} -> ".go"
    [] p = "lib.rs" -> ".rs"
    [] p \in {"package.json", "base44.json"} -> ".json"
    [] p = "requirements.txt" -> ".txt"
    [] p = "README.md" -> ".md"
    [] p = "docker-compose.yml" -> ".yml"
    [] p = "Cargo.toml" -> ".toml"
    [] p = "go.mod" -> ".mod"
    [] p = ".env.example" -> ".example"
    [] OTHER -> ""

----------------------------------------------------------------------------
(* DependencyAnalyzer *)

Ecosystems == {"npm", "pip", "go", "cargo", "other"}

\* self.dep_types[dep] = eco for every dep of deps: a later sighting overwrites.
Record(types, deps, eco) ==
  [d \in (DOMAIN types) \cup Range(deps) |-> IF d \in Range(deps) THEN eco ELSE types[d]]

analyze_python_imports(types, code) ==
  LET all == Flatten([i \in 1..Len(code) |-> PyLineMatches(code[i])])
      deps == SelectSeq(all, LAMBDA d : ~is_stdlib_python(d))
  IN  [deps |-> deps, types |-> Record(types, deps, "pip")]

analyze_js_imports(types, code) ==
  LET all == Flatten([i \in 1..Len(code) |-> JsLineMatches(code[i])])
      deps == SelectSeq(all, LAMBDA d : d # <<>> /\ ~is_stdlib_js(d))
  IN  [deps |-> deps, types |-> Record(types, deps, "npm")]

analyze_go_imports(types, code) ==
  LET all == Flatten([i \in 1..Len(code) |-> GoLineMatches(code[i])])
      deps == SelectSeq(all, LAMBDA d : d # <<>> /\ ~is_stdlib_go(d))
  IN  [deps |-> deps, types |-> Record(types, deps, "go")]

analyze_rust_imports(types, code) ==
  LET all == Flatten([i \in 1..Len(code) |-> RustLineMatches(code[i])])
      deps == SelectSeq(all, LAMBDA d : d # <<>> /\ ~is_stdlib_rust(d))
  IN  [deps |-> deps, types |-> Record(types, deps, "cargo")]

\* analyze_code(code, file_path) with self.dep_types = types: the list returned
\* and dep_types afterwards.
analyze_code(types, code, file_path) ==
  IF Ext(file_path) = ".py" THEN analyze_python_imports(types, code)
  ELSE IF Ext(file_path) \in {".js", ".jsx", ".ts", ".tsx"} THEN analyze_js_imports(types, code)
  ELSE IF Ext(file_path) = ".go" THEN analyze_go_imports(types, code)
  ELSE IF Ext(file_path) = ".rs" THEN analyze_rust_imports(types, code)
  ELSE [deps |-> <<>>, types |-> types]

EmptyBuckets == [e \in Ecosystems |-> <<>>]

\* A loop that appends without looking for the identifier in its bucket.
NormalizeStep_nodedup(types, n, dep) ==
  LET dep_type == IF dep \in DOMAIN types THEN types[dep] ELSE "other"
  IN  [n EXCEPT ![dep_type] = Append(@, dep)]

\* One turn of normalize_dependencies' loop.
NormalizeStep(types, n, dep) ==
  LET dep_type == IF dep \in DOMAIN types THEN types[dep] ELSE "other"
  IN  IF dep_type \in DOMAIN n
      THEN IF dep \notin Range(n[dep_type])
           THEN [n EXCEPT ![dep_type] = Append(@, dep)]
           ELSE n
      ELSE [n EXCEPT !["other"] = Append(@, dep)]

RECURSIVE NormalizeFrom(_, _, _)
NormalizeFrom(types, n, deps) ==
  IF deps = <<>> THEN n
  ELSE NormalizeFrom(types, NormalizeStep(types, n, Head(deps)), Tail(deps))

\* normalize_dependencies(dependencies) with self.dep_types = types
normalize_dependencies(types, dependencies) ==
  NormalizeFrom(types, EmptyBuckets, dependencies)

----------------------------------------------------------------------------
(* ExtractionResult *)

\* ExtractionResult(): the fields as the constructor leaves them.
NewResult ==
  [files |-> EmptyMap, dependencies |-> <<>>, config |-> EmptyMap,
   metadata |-> EmptyMap, errors |-> <<>>, warnings |-> <<>>]

----------------------------------------------------------------------------
(* PortableExporter: the environment template *)

EnvPlaceholder ==
  << <<"#", " ", "Add", " ", "your", " ", "environment", " ", "variables", " ", "here">>,
     <<>> >>

\* if env_content: a text that is neither None nor empty
Truthy(content) == content # None /\ content # << <<>> >>

EnvTemplateLine_rsplit(line) ==
  IF Contains(line, "=")
  THEN LET last == CHOOSE i \in 1..Len(line) :
                     line[i] = "=" /\ \A j \in (i + 1)..Len(line) : line[j] # "="
       IN  Strip(SubSeq(line, 1, last - 1)) \o <<"=", "your_value_here">>
  ELSE line

\* One turn of _generate_env_template's loop: the template line of a line.
EnvTemplateLine(line) ==
  IF Contains(line, "=")
  THEN Strip(BeforeFirst(line, "=")) \o <<"=", "your_value_here">>
  ELSE line

\* The text _generate_env_template writes to .env.example, env_content being
\* extraction_result.config.get('env', '').
env_template(env_content) ==
  IF Truthy(env_content)
  THEN [i \in 1..Len(env_content) |-> EnvTemplateLine(env_content[i])]
  ELSE EnvPlaceholder

----------------------------------------------------------------------------
(* The source trees: the paths a tree may hold and the texts of each.      *)

Paths ==
  {".replit", "base44.json", "package.json", "requirements.txt", ".env",
   "main.py", "src/app.js", "README.md", "go.mod", "main.go", "src/util.go", "lib.rs"}

\* The order in which the file system lists paths (rglob, os.walk): fixed.
DirOrder ==
  <<".replit", "base44.json", "package.json", "requirements.txt", ".env",
    "main.py", "README.md", "docker-compose.yml", "Dockerfile", ".env.example",
    "go.mod", "main.go", "lib.rs", "Cargo.toml", ".gitignore", "LICENSE", "src/app.js",
    "src/util.go">>

Walk(S) == SelectSeq(DirOrder, LAMBDA p : p \in S)

\* The directory of a path, relative to the root, and its last segment.
DirOf(p) == IF p \in {"src/app.js", "src/util.go"} THEN "src" ELSE ""

BaseName(p) ==
  CASE p = "src/app.js" -> "app.js"
    [] p = "src/util.go" -> "util.go"
    [] OTHER -> p

SourcePath == "/work/test-project"

OutputPath == "/work/liberated"

\* marker in str(file_path), file_path being SourcePath/p: the pairs that hold.
SubstringPairs == {<<".replit", ".replit">>, <<"base44.json", "base44.json">>}

PathContains(p, marker) == <<p, marker>> \in SubstringPairs

PyFlask ==
  << <<"import", " ", "os">>,
     <<"from", " ", "flask", " ", "import", " ", "Flask">>,
     <<>> >>

PyRequests == << <<"import", " ", "os">>, <<"import", " ", "requests">> >>

JsExpress ==
  << <<"const", " ", "e", " ", "=", " ", "require", "(", "'", "express", "'", ")">> >>

ReqFlask == << <<"flask", "=", "=", "2", ".", "3", ".", "0">>, <<>> >>

EnvFile == << <<"PORT", "=", "5000">>, <<"SECRET_KEY", "=", "test123">>, <<>> >>

ReplitDict ==
  << <<"{", "\"", "run", "\"", ":", " ", "\"", "python", " ", "main", ".", "py", "\"", "}">> >>

ReplitList == << <<"[", "1", "]">> >>

ReplitToml ==
  << <<"run", " ", "=", " ", "\"", "python", " ", "main", ".", "py", "\"">> >>

B44Dict == << <<"{", "\"", "app", "\"", ":", " ", "1", "}">> >>

PkgExpress ==
  << <<"{", "\"", "dependencies", "\"", ":", " ", "{", "\"", "express", "\"", ":", " ",
       "\"", "4", ".", "0", "\"", "}", "}">> >>

PkgBase44 ==
  << <<"{", "\"", "dependencies", "\"", ":", " ", "{", "\"", "base44", "\"", ":", " ",
       "\"", "1", ".", "0", "\"", "}", "}">> >>

ReadmeText == << <<"hello">> >>

\* The texts a file of the tree may hold, by path; the first is the one an
\* unreadable file holds.
ContentsFor(p) ==
  CASE p = ".replit" -> <<ReplitDict, ReplitList, ReplitToml>>
    [] p = "base44.json" -> <<B44Dict>>
    [] p = "package.json" -> <<PkgExpress, PkgBase44>>
    [] p = "requirements.txt" -> <<ReqFlask>>
    [] p = ".env" -> <<EnvFile>>
    [] p = "main.py" -> <<PyRequests, PyFlask, << <<"import", " ", "express">> >> >>
    [] p = "src/app.js" -> <<JsExpress>>
    [] p = "README.md" -> <<ReadmeText>>
    [] p = "go.mod" ->
         << << <<"module", " ", "app">>,
               <<"require", " ", "github", ".", "com", "/", "a", " ", "v1", ".", "0">>,
               <<"require", " ", "github", ".", "com", "/", "a", " ", "v1", ".", "0">> >> >>
    [] p = "main.go" -> << << <<"import", " ", "\"", "github", ".", "com", "/", "a", "\"">> >> >>
    [] p = "src/util.go" -> << << <<"import", " ", "\"", "fmt", "\"">> >> >>
    [] p = "lib.rs" -> << << <<"use", " ", "serde", ":", ":", "Deserialize", ";">> >> >>

----------------------------------------------------------------------------
(* json: json.loads and json.dumps on the texts of the universe *)

JsonValue(kind, run, deps, text) == [kind |-> kind, run |-> run, deps |-> deps, text |-> text]

\* Python's None as a configuration value; json.dumps renders it null.
NoneVal == JsonValue("none", <<>>, <<>>, <<"null">>)

\* json.loads(text): whether it raises and, when not, the value.  None and
\* every text that is no JSON document raise.
json_loads(text) ==
  CASE text = ReplitDict ->
         [raised |-> FALSE,
          value |-> JsonValue("dict", <<"python", " ", "main", ".", "py">>, <<>>, ReplitDict[1])]
    [] text = ReplitList ->
         [raised |-> FALSE, value |-> JsonValue("list", <<>>, <<>>, ReplitList[1])]
    [] text = B44Dict ->
         [raised |-> FALSE, value |-> JsonValue("dict", <<>>, <<>>, B44Dict[1])]
    [] text = PkgExpress ->
         [raised |-> FALSE,
          value |-> JsonValue("dict", <<>>,
                      << [name |-> <<"express">>, version |-> <<"4", ".", "0">>] >>,
                      PkgExpress[1])]
    [] text = PkgBase44 ->
         [raised |-> FALSE,
          value |-> JsonValue("dict", <<>>,
                      << [name |-> <<"base44">>, version |-> <<"1", ".", "0">>] >>,
                      PkgBase44[1])]
    [] OTHER -> [raised |-> TRUE, value |-> NoneVal]

\* bool(value) of a parsed value: the dicts and lists of the universe are not empty.
TruthyJson(v) == v.kind \in {"dict", "list"}

\* The words of the universe whose lower case holds 'base44'.
Base44Words == {"base44", "Base44", "BASE44"}

\* 'base44' in content.lower()
MentionsBase44(content) ==
  \E i \in 1..Len(content) : Range(content[i]) \cap Base44Words # {}

\* ExtractionResult.add_file: self.files[path] = content
add_file(r, path, content) == [r EXCEPT !.files = Put(@, path, content)]

----------------------------------------------------------------------------
(* BaseExtractor *)

\* path.exists(), every path of a tree being a regular file
Exists(t, p) == p \in DOMAIN t

\* read_file(path): the text, or None when the file is missing or reading raises.
read_file(t, p) == IF Exists(t, p) /\ t[p].readable THEN t[p].content ELSE None

\* ExtractionResult.add_dependency over a sequence of identifiers
RECURSIVE AddDependencies(_, _)
AddDependencies(deps, new) ==
  IF new = <<>> THEN deps
  ELSE AddDependencies(IF Head(new) \in Range(deps) THEN deps ELSE Append(deps, Head(new)),
                       Tail(new))

\* A file the walk of the source directory yields: self.source_path / p.
FilePath(p) == SourcePath \o "/" \o p

\* A key that is the whole path of the file.
relative_to_whole(file_path, root) == file_path

\* str(file_path.relative_to(root)), root being a directory above the file:
\* what follows the root and its separator.
relative_to(file_path, root) == SubSeq(file_path, Len(root) + 2, Len(file_path))

\* The walk of extract(): every file that is not skipped and can be read,
\* under its relative path.
\* A walk that a failed read ends: the files listed after it are lost.
WalkFiles_abort(t, skipped) ==
  LET order == Walk(DOMAIN t)
      bad == {i \in 1..Len(order) : order[i] \notin skipped /\ read_file(t, order[i]) = None}
      kept == {order[i] : i \in {k \in 1..Len(order) : \A b \in bad : k < b}} \ skipped
  IN  [p \in kept |-> read_file(t, p)]

WalkFiles(t, skipped) ==
  LET kept == {p \in DOMAIN t : p \notin skipped /\ read_file(t, p) # None}
      key(p) == relative_to(FilePath(p), SourcePath)
  IN  [k \in {key(p) : p \in kept} |-> read_file(t, CHOOSE p \in kept : key(p) = k)]

\* The identifiers of requirements.txt: the stripped lines that are neither
\* empty nor comments.
RequirementsDeps(t) ==
  LET content == read_file(t, "requirements.txt")
  IN  IF Exists(t, "requirements.txt") /\ Truthy(content)
      THEN SelectSeq([i \in 1..Len(content) |-> Strip(content[i])],
                     LAMBDA line : line # <<>> /\ line[1] # "#")
      ELSE <<>>

\* The identifiers of package.json, name@version; none when reading or
\* parsing raises inside the try.
PackageJsonDeps(t) ==
  LET parsed == json_loads(read_file(t, "package.json"))
  IN  IF Exists(t, "package.json") /\ ~parsed.raised /\ parsed.value.kind = "dict"
      THEN [i \in 1..Len(parsed.value.deps) |->
              parsed.value.deps[i].name \o <<"@">> \o parsed.value.deps[i].version]
      ELSE <<>>

\* The words of the universe that v[\d.]+ matches from their first character.
GoVersionWords == {"v0", "v1", "v2"}

\* re.findall(r'(\S+)\s+v[\d.]+', line) on a line whose stripped text starts
\* with 'require': every run of non-blanks that blanks and a version follow.
GoRequireMatches(line) ==
  LET starts == {i \in 1..Len(line) : ~IsSpace(line[i]) /\ (i = 1 \/ IsSpace(line[i - 1]))}
      end(i) == CHOOSE j \in i..Len(line) :
                  /\ \A k \in i..j : ~IsSpace(line[k])
                  /\ (j = Len(line) \/ IsSpace(line[j + 1]))
      hit(i) == /\ end(i) < Len(line)
                /\ At(line, SkipSpaces(line, end(i) + 1)) \in GoVersionWords
      hits == {i \in starts : hit(i)}
      nth[n \in 1..Cardinality(hits)] ==
        CHOOSE i \in hits : Cardinality({j \in hits : j < i}) = n - 1
  IN  IF Strip(line) # <<>> /\ Strip(line)[1] = "require"
      THEN [n \in 1..Cardinality(hits) |-> SubSeq(line, nth[n], end(nth[n]))]
      ELSE <<>>

\* The module paths of go.mod: result.dependencies.extend(matches), line by line.
GoModDeps(t) ==
  LET content == read_file(t, "go.mod")
  IN  IF Exists(t, "go.mod") /\ Truthy(content)
      THEN Flatten([i \in 1..Len(content) |-> GoRequireMatches(content[i])])
      ELSE <<>>

\* config['env'] = read_file(.env) when .env exists
WithEnv(t, config) ==
  IF Exists(t, ".env") THEN Put(config, "env", read_file(t, ".env")) ELSE config

----------------------------------------------------------------------------
(* The extractors.  Trees hold no pyproject.toml, Pipfile, Cargo.toml or     *)
(* replit.nix, so the steps of extract() that read them add nothing.        *)

Base44Markers == <<".base44", "base44.json", "base44.config", ".base44config">>

ReplitMarkers == <<".replit", "replit.nix", ".config/replit", "replit.json">>

Base44Extractor_detect(t) ==
  \/ \E i \in 1..Len(Base44Markers) : Exists(t, Base44Markers[i])
  \/ /\ Exists(t, "package.json")
     /\ t["package.json"].readable
     /\ MentionsBase44(t["package.json"].content)

ReplitExtractor_detect(t) == \E i \in 1..Len(ReplitMarkers) : Exists(t, ReplitMarkers[i])

GenericExtractor_detect(t) == TRUE

\* The files the walk skips as the platform's own configuration.
Base44Skip(t) ==
  {p \in DOMAIN t : PathContains(p, ".base44") \/ PathContains(p, "base44.json")}

ReplitSkip(t) ==
  {p \in DOMAIN t : \/ PathContains(p, ".replit")
                    \/ PathContains(p, "replit.nix")
                    \/ PathContains(p, ".config/replit")}

GenericSkip(t) == {}

\* The first configuration file that exists and parses; 0 when none does.
Base44ConfigIndex(t) ==
  LET ok == {i \in 1..Len(Base44Markers) :
               Exists(t, Base44Markers[i]) /\ ~json_loads(read_file(t, Base44Markers[i])).raised}
  IN  IF ok = {} THEN 0 ELSE CHOOSE i \in ok : \A j \in ok : i <= j

\* Base44Extractor.extract(): whether it raises and, when not, the result.
Base44Extractor_extract(t) ==
  LET k == Base44ConfigIndex(t)
      base44_config == IF k = 0 THEN NoneVal ELSE json_loads(read_file(t, Base44Markers[k])).value
      config == IF k = 0 THEN EmptyMap ELSE Put(EmptyMap, "base44", base44_config)
  IN  [raised |-> FALSE,
       result |->
         [files |-> WalkFiles(t, Base44Skip(t)),
          dependencies |-> AddDependencies(<<>>, PackageJsonDeps(t)),
          config |-> WithEnv(t, config),
          metadata |-> [platform |-> "base44", source_path |-> SourcePath,
                        base44_config |-> base44_config],
          errors |-> <<>>,
          warnings |-> <<>>]]

\* replit_config.get('run', '') raises AttributeError on a truthy value that is no dict.
RunCommandRaises(replit_config) == TruthyJson(replit_config) /\ replit_config.kind # "dict"

\* ReplitExtractor.extract(): whether it raises and, when not, the result.
ReplitExtractor_extract(t) ==
  LET parsed == json_loads(read_file(t, ".replit"))
      loaded == Exists(t, ".replit") /\ ~parsed.raised
      replit_config == IF loaded THEN parsed.value ELSE NoneVal
      config1 == IF loaded THEN Put(EmptyMap, "replit", replit_config) ELSE EmptyMap
      config2 == IF Exists(t, "replit.nix")
                 THEN Put(config1, "replit_nix", read_file(t, "replit.nix")) ELSE config1
      config3 == WithEnv(t, config2)
      config4 == IF TruthyJson(replit_config) /\ ~RunCommandRaises(replit_config)
                      /\ replit_config.run # <<>>
                 THEN Put(config3, "run_command", replit_config.run) ELSE config3
  IN  IF RunCommandRaises(replit_config)
      THEN [raised |-> TRUE, result |-> NewResult]
      ELSE [raised |-> FALSE,
            result |->
              [files |-> WalkFiles(t, ReplitSkip(t)),
               dependencies |->
                 AddDependencies(<<>>, RequirementsDeps(t) \o PackageJsonDeps(t))
                   \o GoModDeps(t),
               config |-> config4,
               metadata |-> [platform |-> "replit", source_path |-> SourcePath,
                             replit_config |-> replit_config],
               errors |-> <<>>,
               warnings |-> <<>>]]

\* GenericExtractor.extract() with _detect_dependencies
GenericExtractor_extract(t) ==
  [raised |-> FALSE,
   result |->
     [files |-> WalkFiles(t, GenericSkip(t)),
      dependencies |->
        AddDependencies(<<>>, PackageJsonDeps(t) \o RequirementsDeps(t)) \o GoModDeps(t),
      config |-> EmptyMap,
      metadata |-> [platform |-> "generic", source_path |-> SourcePath],
      errors |-> <<>>,
      warnings |-> <<>>]]

----------------------------------------------------------------------------
(* PlatformDetector *)

EXTRACTORS_generic_first == <<"GenericExtractor", "Base44Extractor", "ReplitExtractor">>

EXTRACTORS == <<"Base44Extractor", "ReplitExtractor", "GenericExtractor">>

Detects(cls, t) ==
  CASE cls = "Base44Extractor" -> Base44Extractor_detect(t)
    [] cls = "ReplitExtractor" -> ReplitExtractor_detect(t)
    [] cls = "GenericExtractor" -> GenericExtractor_detect(t)

\* One turn of detect_platform's loop: the constructor raises ValueError when
\* the source path does not exist, and the except clause moves on.
Probe(cls, exists, t) == IF ~exists THEN "raise" ELSE IF Detects(cls, t) THEN "true" ELSE "false"

\* A selection that keeps the last class whose detect() is true.
detect_platform_last(exists, t) ==
  LET hits == {i \in 1..Len(EXTRACTORS) : Probe(EXTRACTORS[i], exists, t) = "true"}
  IN  IF hits = {} THEN "GenericExtractor"
      ELSE EXTRACTORS[CHOOSE i \in hits : \A j \in hits : i >= j]

detect_platform(exists, t) ==
  LET hits == {i \in 1..Len(EXTRACTORS) : Probe(EXTRACTORS[i], exists, t) = "true"}
  IN  IF hits = {} THEN "GenericExtractor"
      ELSE EXTRACTORS[CHOOSE i \in hits : \A j \in hits : i <= j]

\* extractor_class(source_path).extract()
Extraction(cls, t) ==
  CASE cls = "Base44Extractor" -> Base44Extractor_extract(t)
    [] cls = "ReplitExtractor" -> ReplitExtractor_extract(t)
    [] cls = "GenericExtractor" -> GenericExtractor_extract(t)

----------------------------------------------------------------------------
(* PortableExporter.  A write is [path, content]; the texts of the          *)
(* generated files keep the lines that vary and abbreviate the fixed ones.  *)

\* ret before export() has returned
NoReturn == [status |-> "none"]

ProjectName == "liberated"

StructureLimit == 10

Write(path, content) == [path |-> path, content |-> content]

\* The directory after the writes: each path holds what was written to it last.
ApplyWrites(fs, writes) ==
  LET last(p) == CHOOSE i \in 1..Len(writes) :
                   writes[i].path = p /\ \A j \in (i + 1)..Len(writes) : writes[j].path # p
  IN  [p \in (DOMAIN fs) \cup {writes[i].path : i \in 1..Len(writes)} |->
         IF \E i \in 1..Len(writes) : writes[i].path = p
         THEN writes[last(p)].content ELSE fs[p]]

\* The loop of export() over files.items(): the identifiers the analyzer
\* returns, and dep_types afterwards.
\* A loop that the first file ends.
ScanFiles_first(types, files, order) ==
  IF order = <<>> THEN [deps |-> {}, types |-> types]
  ELSE LET one == analyze_code(types, files[Head(order)], Head(order))
       IN  [deps |-> Range(one.deps), types |-> one.types]

RECURSIVE ScanFiles(_, _, _)
ScanFiles(types, files, order) ==
  IF order = <<>> THEN [deps |-> {}, types |-> types]
  ELSE LET one == analyze_code(types, files[Head(order)], Head(order))
           rest == ScanFiles(one.types, files, Tail(order))
       IN  [deps |-> Range(one.deps) \cup rest.deps, types |-> rest.types]

CopyWrites(files) ==
  LET order == Walk(DOMAIN files)
  IN  [i \in 1..Len(order) |-> Write(order[i], files[order[i]])]

\* package_json['dependencies'] after the loop over the npm bucket: a dict,
\* so a name set twice keeps its place and takes the later version.
RECURSIVE NpmDict(_, _)
NpmDict(dict, deps) ==
  IF deps = <<>> THEN dict
  ELSE LET dep == Head(deps)
           name == IF Contains(dep, "@") THEN BeforeFirst(dep, "@") ELSE dep
           version == IF Contains(dep, "@") THEN AfterFirst(dep, "@") ELSE <<"*">>
           at == {i \in 1..Len(dict) : dict[i].name = name}
       IN  NpmDict(IF at = {} THEN Append(dict, [name |-> name, version |-> version])
                   ELSE [i \in 1..Len(dict) |->
                           IF i \in at THEN [name |-> name, version |-> version] ELSE dict[i]],
                   Tail(deps))

PackageJsonText(npm) ==
  LET dict == NpmDict(<<>>, npm)
  IN  << <<"{">>, <<"\"name\":", ProjectName>>, <<"\"version\":", "1.0.0">>,
         <<"\"dependencies\":", "{">> >>
        \o [i \in 1..Len(dict) |-> dict[i].name \o <<":">> \o dict[i].version]
        \o << <<"}">>, <<"\"devDependencies\":", "{}">>, <<"}">> >>

GoModText(go) ==
  << <<"module", " ", ProjectName>>, <<>>, <<"go", " ", "1.21">>, <<>> >>
    \o [i \in 1..Len(go) |-> <<"require", " ">> \o go[i] \o <<" ", "v0.0.0">>]
    \o << <<>> >>

CargoTomlText(cargo) ==
  << <<"[package]">>, <<"name", " ", "=", " ", ProjectName>>, <<>>, <<"[dependencies]">> >>
    \o [i \in 1..Len(cargo) |-> cargo[i] \o <<" ", "=", " ", "\"*\"">>]
    \o << <<>> >>

\* A synthesis that writes requirements.txt whether or not pip is empty.
generate_config_files_always(dependencies) ==
  (IF dependencies["npm"] # <<>>
   THEN <<Write("package.json", PackageJsonText(dependencies["npm"]))>> ELSE <<>>)
  \o <<Write("requirements.txt", dependencies["pip"])>>
  \o (IF dependencies["go"] # <<>>
      THEN <<Write("go.mod", GoModText(dependencies["go"]))>> ELSE <<>>)
  \o (IF dependencies["cargo"] # <<>>
      THEN <<Write("Cargo.toml", CargoTomlText(dependencies["cargo"]))>> ELSE <<>>)

\* _generate_config_files: a manifest for every bucket that is not empty;
\* requirements.txt is '\n'.join(pip), whose lines are the identifiers.
generate_config_files(dependencies) ==
  (IF dependencies["npm"] # <<>>
   THEN <<Write("package.json", PackageJsonText(dependencies["npm"]))>> ELSE <<>>)
  \o (IF dependencies["pip"] # <<>>
      THEN <<Write("requirements.txt", dependencies["pip"])>> ELSE <<>>)
  \o (IF dependencies["go"] # <<>>
      THEN <<Write("go.mod", GoModText(dependencies["go"]))>> ELSE <<>>)
  \o (IF dependencies["cargo"] # <<>>
      THEN <<Write("Cargo.toml", CargoTomlText(dependencies["cargo"]))>> ELSE <<>>)

LangMap ==
  [e \in {".py", ".js", ".jsx", ".ts", ".tsx", ".go", ".rs", ".java", ".cpp", ".c"} |->
     CASE e = ".py" -> "python"
       [] e \in {".js", ".jsx"} -> "javascript"
       [] e \in {".ts", ".tsx"} -> "typescript"
       [] e = ".go" -> "go"
       [] e = ".rs" -> "rust"
       [] e = ".java" -> "java"
       [] e = ".cpp" -> "cpp"
       [] e = ".c" -> "c"]

detect_languages(files) ==
  {LangMap[Ext(p)] : p \in {q \in DOMAIN files : Ext(q) \in DOMAIN LangMap}}

DockerfileText(image, cmd) == << <<"FROM", " ", image>>, <<"CMD", " ", cmd>>, <<>> >>

DockerComposeText == << <<"version:", " ", "'3.8'">>, <<"services:">>, <<>> >>

generate_docker_files(files) ==
  LET languages == detect_languages(files)
  IN  (IF "python" \in languages
       THEN <<Write("Dockerfile", DockerfileText("python:3.11-slim", "python app.py"))>>
       ELSE IF "javascript" \in languages \/ "typescript" \in languages
       THEN <<Write("Dockerfile", DockerfileText("node:18-alpine", "npm start"))>>
       ELSE IF "go" \in languages
       THEN <<Write("Dockerfile", DockerfileText("golang:1.21-alpine", "./app"))>>
       ELSE <<>>)
      \o <<Write("docker-compose.yml", DockerComposeText)>>

generate_env_template(config) ==
  <<Write(".env.example",
          env_template(IF "env" \in DOMAIN config THEN config["env"] ELSE << <<>> >>))>>

\* _get_project_structure: os.walk of the output directory as it is when the
\* README is generated: each directory, then the first ten of its files.
StructureListing(fs) ==
  LET dirs == {DirOf(p) : p \in DOMAIN fs} \cup {""}
      filesOf(d) == Walk({p \in DOMAIN fs : DirOf(p) = d})
      shown(d) == SubSeq(filesOf(d), 1, IF Len(filesOf(d)) < StructureLimit
                                        THEN Len(filesOf(d)) ELSE StructureLimit)
      block(d) ==
        << (IF d = "" THEN <<ProjectName, "/">> ELSE <<" ", " ", d, "/">>) >>
          \o [i \in 1..Len(shown(d)) |->
                (IF d = "" THEN <<" ", " ">> ELSE <<" ", " ", " ", " ">>)
                  \o <<BaseName(shown(d)[i])>>]
  IN  block("") \o (IF "src" \in dirs THEN block("src") ELSE <<>>)

\* json.dumps(metadata, indent=2)
MetadataText(metadata) ==
  << <<"{">>, <<"\"platform\":", metadata.platform>>,
     <<"\"source_path\":", metadata.source_path>> >>
    \o (IF "replit_config" \in DOMAIN metadata
        THEN << <<"\"replit_config\":">> \o metadata.replit_config.text >> ELSE <<>>)
    \o (IF "base44_config" \in DOMAIN metadata
        THEN << <<"\"base44_config\":">> \o metadata.base44_config.text >> ELSE <<>>)
    \o << <<"}">> >>

DepsSection(title, deps) ==
  IF deps # <<>>
  THEN << <<"###", " ", title>> >> \o [i \in 1..Len(deps) |-> <<"-", " ">> \o deps[i]] \o << <<>> >>
  ELSE <<>>

\* _generate_readme, fs being the output directory at that moment
generate_readme(metadata, dependencies, fs) ==
  <<Write("README.md",
      << <<"#", " ", ProjectName>>,
         <<"##", " ", "Liberated", " ", "from", " ",
           IF "platform" \in DOMAIN metadata THEN metadata.platform ELSE "unknown">>,
         <<"##", " ", "Project", " ", "Structure">> >>
        \o StructureListing(fs)
        \o << <<"##", " ", "Dependencies">> >>
        \o DepsSection("Node.js", dependencies["npm"])
        \o DepsSection("Python", dependencies["pip"])
        \o DepsSection("Go", dependencies["go"])
        \o << <<"##", " ", "Original", " ", "Platform", " ", "Metadata">> >>
        \o (IF DOMAIN metadata # {} THEN MetadataText(metadata) ELSE <<>>))>>

generate_gitignore == <<Write(".gitignore", << <<"node_modules/">>, <<".env">>, <<>> >>)>>

generate_license == <<Write("LICENSE", << <<"MIT", " ", "License">>, <<>> >>)>>

\* export(extraction_result) on the output directory fs with self.dep_types =
\* types, list(all_deps) coming out in the order listing: the writes in order,
\* dep_types afterwards and the value returned.
export(r, types, fs, listing) ==
  LET \* the steps of export() after normalization, normalized_deps being a value
      synthesize(scanned, normalized_deps) ==
        LET early == CopyWrites(r.files)
                       \o generate_config_files(normalized_deps)
                       \o generate_docker_files(r.files)
                       \o generate_env_template(r.config)
            writes(before, fsThen) ==
              before \o generate_readme(r.metadata, normalized_deps, fsThen)
                \o generate_gitignore \o generate_license
        IN  [writes |-> Only({writes(w, Only({ApplyWrites(fs, w)})) : w \in {early}}),
             types |-> scanned.types,
             ret |-> [output_path |-> OutputPath,
                      files_exported |-> Cardinality(DOMAIN r.files),
                      dependencies |-> normalized_deps,
                      status |-> "success"]]
  IN  Only({ Only({ synthesize(scan, n) : n \in {normalize_dependencies(scan.types, listing)} })
             : scan \in {ScanFiles(types, r.files, Walk(DOMAIN r.files))} })

\* An export that empties the files of its argument.
ResultAfterExport_consumed(r) == [r EXCEPT !.files = EmptyMap]

\* extraction_result as export() leaves it: export only reads its fields, and
\* all_deps is a set of its own, so the scanned identifiers are not added.
ResultAfterExport(r) == r

\* A set that starts empty instead of from the result's dependencies.
all_deps_scanned(r, types) == ScanFiles(types, r.files, Walk(DOMAIN r.files)).deps

\* all_deps of export(): the manifest identifiers and the scanned ones
all_deps(r, types) ==
  Range(r.dependencies) \cup ScanFiles(types, r.files, Walk(DOMAIN r.files)).deps

\* The orders in which a set can come out of list(set)
Orderings(S) == {s \in [1..Cardinality(S) -> S] : Range(s) = S}

----------------------------------------------------------------------------
(* The pipeline: a caller builds a project, detects, extracts, and exports, *)
(* once or twice, with one PortableExporter.                                *)

FileEntry(p, k, readable) == [content |-> ContentsFor(p)[k], readable |-> readable]

Init ==
  /\ src_exists \in BOOLEAN
  /\ src_is_dir \in BOOLEAN
  /\ src_is_dir => src_exists
  /\ tree = EmptyMap
  /\ phase = "setup"
  /\ selected = "none"
  /\ result = NewResult
  /\ dep_types = EmptyMap
  /\ out = EmptyMap
  /\ writeLog = <<>>
  /\ ret = NoReturn
  /\ firstOut = EmptyMap
  /\ listed = <<>>
  /\ fnIn = None
  /\ fnOut = None

\* The project's author writes a file; a file that cannot be read holds the
\* first text of its path.
WriteSourceFile(p, k, readable) ==
  /\ phase = "setup"
  /\ src_is_dir
  /\ p \notin DOMAIN tree
  /\ Cardinality(DOMAIN tree) < MaxFiles
  /\ k \in 1..Len(ContentsFor(p))
  /\ ~readable => k = 1
  /\ tree' = Put(tree, p, FileEntry(p, k, readable))
  /\ UNCHANGED <<src_exists, src_is_dir, phase, selected, result, dep_types, out, writeLog, ret,
                 firstOut, listed, fnIn, fnOut>>

Detect ==
  /\ phase = "setup"
  /\ selected' = detect_platform(src_exists, tree)
  /\ phase' = "detected"
  /\ UNCHANGED <<src_exists, src_is_dir, tree, result, dep_types, out, writeLog, ret, firstOut,
                 listed, fnIn, fnOut>>

\* extractor_class(source_path).extract(): the constructor raises ValueError
\* when the source path does not exist.
Extract ==
  /\ phase = "detected"
  /\ IF ~src_exists
     THEN phase' = "construct_raised" /\ result' = result
     ELSE LET e == Extraction(selected, tree)
          IN  /\ phase' = IF e.raised THEN "extract_raised" ELSE "extracted"
              /\ result' = e.result
  /\ UNCHANGED <<src_exists, src_is_dir, tree, selected, dep_types, out, writeLog, ret, firstOut,
                 listed, fnIn, fnOut>>

\* exporter.export(result), the first call and a second one with the same
\* exporter and result; a set built the same way twice lists the same way.
Export ==
  /\ phase \in {"extracted", "exported"}
  /\ \E listing \in Orderings(all_deps(result, dep_types)) :
       /\ (phase = "exported" /\ Range(listed) = Range(listing)) => listing = listed
       /\ \E e \in {export(result, dep_types, out, listing)} :
            /\ writeLog' = e.writes
            /\ out' = ApplyWrites(out, e.writes)
            /\ dep_types' = e.types
            /\ ret' = e.ret
            /\ firstOut' = IF phase = "extracted" THEN ApplyWrites(out, e.writes) ELSE firstOut
            /\ listed' = listing
  /\ result' = ResultAfterExport(result)
  /\ phase' = IF phase = "extracted" THEN "exported" ELSE "reexported"
  /\ UNCHANGED <<src_exists, src_is_dir, tree, selected, fnIn, fnOut>>

Next ==
  \/ \E p \in Paths, k \in 1..3, readable \in BOOLEAN : WriteSourceFile(p, k, readable)
  \/ Detect
  \/ Extract
  \/ Export

Spec == Init /\ [][Next]_vars

----------------------------------------------------------------------------
(* Function specifications: the inputs are drawn in the initial state and  *)
(* one action applies the function.                                        *)

PipeIdle ==
  /\ src_exists = TRUE
  /\ src_is_dir = TRUE
  /\ tree = EmptyMap
  /\ selected = "none"
  /\ result = NewResult
  /\ dep_types = EmptyMap
  /\ out = EmptyMap
  /\ writeLog = <<>>
  /\ ret = NoReturn
  /\ firstOut = EmptyMap
  /\ listed = <<>>

SeqsUpTo(S, n) == UNION {[1..k -> S] : k \in 0..n}

(* normalize_dependencies *)

NormIdents ==
  { <<"flask">>, <<"express">>, <<"flask", "=", "=", "2", ".", "3", ".", "0">> }

\* The tables the scanners can leave in dep_types: identifier -> ecosystem tag.
NormTables ==
  UNION {[S -> {"npm", "pip", "go", "cargo"}] : S \in SUBSET NormIdents}

InitNorm ==
  /\ PipeIdle
  /\ phase = "call_normalize"
  /\ fnIn \in [types : NormTables, deps : SeqsUpTo(NormIdents, MaxDeps)]
  /\ fnOut = None

CallNormalize ==
  /\ phase = "call_normalize"
  /\ fnOut' = normalize_dependencies(fnIn.types, fnIn.deps)
  /\ phase' = "ret_normalize"
  /\ UNCHANGED <<pipeVars, fnIn>>

NextNorm == CallNormalize

SpecNorm == InitNorm /\ [][NextNorm]_vars

(* One PortableExporter, two projects: the exporter exports the result of   *)
(* another project before it exports the result of the pipeline.           *)

ReusePaths == {"go.mod", "main.go", "main.py", "src/app.js"}

ReuseTrees ==
  {[p \in S |-> FileEntry(p, 1, TRUE)] :
     S \in {T \in SUBSET ReusePaths : Cardinality(T) <= MaxReuseFiles}}

\* fnIn is the directory of the other project, fnOut what its export returned.
InitReuse ==
  /\ src_exists = TRUE
  /\ src_is_dir = TRUE
  /\ tree \in ReuseTrees
  /\ phase = "setup"
  /\ selected = "none"
  /\ result = NewResult
  /\ dep_types = EmptyMap
  /\ out = EmptyMap
  /\ writeLog = <<>>
  /\ ret = NoReturn
  /\ firstOut = EmptyMap
  /\ listed = <<>>
  /\ fnIn \in ReuseTrees
  /\ fnOut = None

\* exporter.export(other), other being the extraction of the other project
ExportEarlier ==
  /\ phase = "extracted"
  /\ fnOut = None
  /\ \E other \in {Extraction(detect_platform(TRUE, fnIn), fnIn).result} :
       \E listing \in Orderings(all_deps(other, dep_types)) :
         \E e \in {export(other, dep_types, out, listing)} :
           /\ dep_types' = e.types
           /\ out' = ApplyWrites(out, e.writes)
           /\ fnOut' = e.ret
  /\ UNCHANGED <<src_exists, src_is_dir, tree, phase, selected, result, writeLog, ret,
                 firstOut, listed, fnIn>>

NextReuse ==
  \/ Detect
  \/ Extract
  \/ ExportEarlier
  \/ Export

SpecReuse == InitReuse /\ [][NextReuse]_vars

(* ExtractionResult.add_file: an extraction in progress calls it once for   *)
(* every file it reads; fnIn holds the calls still to come.                 *)

AddFileCalls ==
  [path : {"main.py", "src/app.js", "README.md"}, content : {PyRequests, ReadmeText}]

InitAddFile ==
  /\ PipeIdle
  /\ phase = "adding"
  /\ fnIn \in SeqsUpTo(AddFileCalls, MaxFiles)
  /\ fnOut = None

CallAddFile ==
  /\ phase = "adding"
  /\ fnIn # <<>>
  /\ result' = add_file(result, Head(fnIn).path, Head(fnIn).content)
  /\ fnIn' = Tail(fnIn)
  /\ UNCHANGED <<src_exists, src_is_dir, tree, phase, selected, dep_types, out, writeLog, ret,
                 firstOut, listed, fnOut>>

NextAddFile == CallAddFile

SpecAddFile == InitAddFile /\ [][NextAddFile]_vars

(* The GUI's worker: ExtractionThread.run on a source directory.  fnIn is   *)
(* what the main window passes to the thread, fnOut the signals emitted.   *)

\* The parameters of PortableExporter.__init__ besides self.
ExporterParams == {"output_path"}

\* A call PortableExporter(output_path, **keywords) raises TypeError when a
\* keyword is no parameter of __init__.
ConstructRaises(keywords) == ~(keywords \subseteq ExporterParams)

\* extractor_map.get(self.platform, GenericExtractor)
extractor_map(platform) ==
  CASE platform = "base44" -> "Base44Extractor"
    [] platform = "replit" -> "ReplitExtractor"
    [] OTHER -> "GenericExtractor"

Progress(text) == <<"progress", text>>

\* ExtractionThread.run(): the signals it emits, in order.  Every exception
\* ends the run with the error signal.
ExtractionThread_run(platform, exists, t) ==
  LET extractor_class == IF platform = "auto" THEN detect_platform(exists, t)
                         ELSE extractor_map(platform)
      head == <<Progress("Detecting platform..."), Progress("Using extractor")>>
      e == Extraction(extractor_class, t)
  IN  IF ~exists THEN head \o << <<"error", "ValueError">> >>
      ELSE IF e.raised
      THEN head \o <<Progress("Extracting files..."), <<"error", "AttributeError">> >>
      ELSE IF ConstructRaises({"target_platforms"})
      THEN head \o <<Progress("Extracting files..."), Progress("Extracted files"),
                     Progress("Exporting to portable format..."), <<"error", "TypeError">> >>
      ELSE head \o <<Progress("Extracting files..."), Progress("Extracted files"),
                     Progress("Exporting to portable format..."),
                     <<"finished", "Successfully liberated project!">> >>

GuiPlatforms == {"auto", "base44", "replit", "generic"}

GuiTargets == {<<>>, <<"LINUX">>, <<"WINDOWS", "MACOS">>}

InitGui ==
  /\ src_exists = TRUE
  /\ src_is_dir = TRUE
  /\ tree \in ReuseTrees
  /\ phase = "thread_created"
  /\ selected = "none"
  /\ result = NewResult
  /\ dep_types = EmptyMap
  /\ out = EmptyMap
  /\ writeLog = <<>>
  /\ ret = NoReturn
  /\ firstOut = EmptyMap
  /\ listed = <<>>
  /\ fnIn \in [platform : GuiPlatforms, target_platforms : GuiTargets]
  /\ fnOut = None

\* extraction_thread.start(): run() to its end
RunThread ==
  /\ phase = "thread_created"
  /\ fnOut' = ExtractionThread_run(fnIn.platform, src_exists, tree)
  /\ phase' = "thread_ended"
  /\ UNCHANGED <<pipeVars, fnIn>>

NextGui == RunThread

SpecGui == InitGui /\ [][NextGui]_vars

(* The command line: main() with the command 'extract'.  fnIn holds the     *)
(* arguments and what the network answers, tree the project at the source  *)
(* (the directory, or what the URL downloads to), fnOut how the process    *)
(* ends: its exit status, the temporary directory and the steps it ran.    *)

\* The package of the module liberator.cli
CliPackage == <<"liberator">>

\* 'from ..name import x' has level 2.
ParentImportLevel == 2

\* A relative import of that level in a module of the package raises
\* ImportError (beyond top-level package) when the package is not that deep.
ImportRaises(level, package) == level > Len(package)

\* handle_extract(args) under main(): sys.exit(1) and every exception, which
\* main() catches, end the process with status 1.
handle_extract(args, t) ==
  LET url == args.source = "url"
      extractor_class == IF args.platform = "auto" THEN detect_platform(TRUE, t)
                         ELSE extractor_map(args.platform)
      e == Extraction(extractor_class, t)
      got == IF url THEN <<"download">> ELSE <<>>
      temp == IF url THEN "present" ELSE "absent"
      done == got \o <<"detect", "extract", "export", "report">>
      cleaned == IF url /\ ~ImportRaises(ParentImportLevel, CliPackage)
                 THEN "removed" ELSE temp
  IN  IF ImportRaises(ParentImportLevel, CliPackage)
      THEN [exit |-> 1, temp |-> "absent", steps |-> <<>>]
      ELSE IF url /\ ~args.download_ok
      THEN [exit |-> 1, temp |-> "present", steps |-> <<>>]
      ELSE IF args.source = "missing"
      THEN [exit |-> 1, temp |-> "absent", steps |-> <<>>]
      ELSE IF e.raised
      THEN [exit |-> 1, temp |-> temp, steps |-> got \o <<"detect">>]
      ELSE IF args.github = "new" /\ ~args.create_ok
      THEN [exit |-> 1, temp |-> temp, steps |-> done]
      ELSE IF args.github # "none" /\ ~args.push_ok
      THEN [exit |-> 1, temp |-> temp, steps |-> done]
      ELSE [exit |-> 0, temp |-> cleaned,
            steps |-> done \o (IF args.github # "none" THEN <<"push">> ELSE <<>>)]

CliArgs ==
  [source : {"dir", "missing", "url"}, platform : GuiPlatforms,
   github : {"none", "new", "existing"},
   download_ok : BOOLEAN, create_ok : BOOLEAN, push_ok : BOOLEAN]

InitCli ==
  /\ src_exists = TRUE
  /\ src_is_dir = TRUE
  /\ tree \in ReuseTrees
  /\ phase = "cli_started"
  /\ selected = "none"
  /\ result = NewResult
  /\ dep_types = EmptyMap
  /\ out = EmptyMap
  /\ writeLog = <<>>
  /\ ret = NoReturn
  /\ firstOut = EmptyMap
  /\ listed = <<>>
  /\ fnIn \in CliArgs
  /\ fnOut = None

\* main(): parse the arguments, call handle_extract, exit
CliExtract ==
  /\ phase = "cli_started"
  /\ fnOut' = handle_extract(fnIn, tree)
  /\ phase' = "cli_ended"
  /\ UNCHANGED <<pipeVars, fnIn>>

NextCli == CliExtract

SpecCli == InitCli /\ [][NextCli]_vars

(* CodeAnalyzer.analyze_file on Python files and on files of no analysed   *)
(* language.  A Python text is a sequence of unindented one-line           *)
(* statements and of lines that are no statement.                          *)

\* ast.parse on one line: the node of a statement, SyntaxError otherwise.
AstNode(line) ==
  CASE line = <<"import", " ", "os", ".", "path">> ->
         [kind |-> "Import", name |-> <<"os", ".", "path">>, extra |-> <<>>]
    [] line = <<"from", " ", "flask", " ", "import", " ", "Flask">> ->
         [kind |-> "ImportFrom", name |-> <<"flask">>, extra |-> <<>>]
    [] line = <<"def", " ", "f", "(", "x", ")", ":", " ", "pass">> ->
         [kind |-> "FunctionDef", name |-> <<"f">>, extra |-> << <<"x">> >>]
    [] line = <<"class", " ", "A", ":", " ", "pass">> ->
         [kind |-> "ClassDef", name |-> <<"A">>, extra |-> <<>>]
    [] line = <<"requests">> -> [kind |-> "Expr", name |-> <<>>, extra |-> <<>>]
    [] OTHER -> [kind |-> "SyntaxError", name |-> <<>>, extra |-> <<>>]

\* Whether ast.parse(content) returns.
Parses(content) == \A i \in 1..Len(content) : AstNode(content[i]).kind # "SyntaxError"

\* \S+ from position j of a line: the lexemes up to the next blank.
NonBlankRun(line, j) ==
  SubSeq(line, j, (CHOOSE k \in j..Len(line) :
                     /\ \A n \in j..k : ~IsSpace(line[n])
                     /\ (k = Len(line) \/ IsSpace(line[k + 1]))))

\* re.findall(r'^(?:kw)\s+(\S+)', content, re.MULTILINE) from line i on, and
\* with (\w+) for the group when wordOnly: \s+ runs over line ends, and a
\* line whose start a match has consumed opens no match.
RECURSIVE LineStartMatches(_, _, _, _)
LineStartMatches(content, kws, wordOnly, i) ==
  IF i > Len(content) THEN <<>>
  ELSE LET line == content[i]
           opens == line # <<>> /\ line[1] \in kws /\ (Len(line) = 1 \/ IsSpace(line[2]))
           sameLine == opens /\ SkipSpaces(line, 2) <= Len(line)
           later == {k \in (i + 1)..Len(content) :
                       SkipSpaces(content[k], 1) <= Len(content[k])}
           k == IF sameLine THEN i
                ELSE IF later = {} THEN 0 ELSE CHOOSE m \in later : \A n \in later : m <= n
           at == IF sameLine THEN SkipSpaces(line, 2) ELSE SkipSpaces(content[k], 1)
           found == opens /\ k # 0 /\ (wordOnly => IsWord(content[k][at]))
           group == IF wordOnly THEN <<content[k][at]>> ELSE NonBlankRun(content[k], at)
       IN  IF found THEN <<group>> \o LineStartMatches(content, kws, wordOnly, k + 1)
           ELSE LineStartMatches(content, kws, wordOnly, i + 1)

\* An analysis without the except clause: what ast.parse raises goes on.
analyze_python_noexcept(content) ==
  [raised |-> ~Parses(content), imports |-> <<>>, functions |-> <<>>, classes |-> <<>>]

\* _analyze_python(content): the walk of the tree, and the regular
\* expressions when parsing raises.
analyze_python(content) ==
  LET nodes == [i \in 1..Len(content) |-> AstNode(content[i])]
      lines(kinds) == SelectSeq([i \in 1..Len(content) |-> i],
                                LAMBDA i : nodes[i].kind \in kinds)
      imports == [n \in 1..Len(lines({"Import", "ImportFrom"})) |->
                    nodes[lines({"Import", "ImportFrom"})[n]].name]
      functions == [n \in 1..Len(lines({"FunctionDef"})) |->
                      [name |-> nodes[lines({"FunctionDef"})[n]].name,
                       args |-> nodes[lines({"FunctionDef"})[n]].extra,
                       line |-> lines({"FunctionDef"})[n]]]
      classes == [n \in 1..Len(lines({"ClassDef"})) |->
                    [name |-> nodes[lines({"ClassDef"})[n]].name,
                     bases |-> nodes[lines({"ClassDef"})[n]].extra,
                     line |-> lines({"ClassDef"})[n]]]
  IN  IF Parses(content)
      THEN [raised |-> FALSE, imports |-> imports, functions |-> functions,
            classes |-> classes]
      ELSE [raised |-> FALSE,
            imports |-> LineStartMatches(content, {"import", "from"}, FALSE, 1),
            functions |-> LineStartMatches(content, {"def"}, TRUE, 1),
            classes |-> LineStartMatches(content, {"class"}, TRUE, 1)]

\* analyze_file(file_path, content) for .py files and for files whose
\* extension has no analyzer: whether it raises and the dict returned.
analyze_file(file_path, content) ==
  LET language == IF Ext(file_path) \in DOMAIN LangMap THEN LangMap[Ext(file_path)]
                  ELSE "unknown"
      base == [raised |-> FALSE, imports |-> <<>>, functions |-> <<>>, classes |-> <<>>]
      update == IF Ext(file_path) = ".py" THEN analyze_python(content) ELSE base
  IN  [raised |-> update.raised,
       value |-> [file_path |-> file_path, language |-> language,
                  imports |-> update.imports, functions |-> update.functions,
                  classes |-> update.classes]]

AnalyzeLines ==
  { <<"import", " ", "os", ".", "path">>,
    <<"from", " ", "flask", " ", "import", " ", "Flask">>,
    <<"def", " ", "f", "(", "x", ")", ":", " ", "pass">>,
    <<"class", " ", "A", ":", " ", "pass">>,
    <<"requests">>,
    <<"def", " ", "g", "(", ":">>,
    <<"class", " ", "B">>,
    <<"import">>,
    <<" ", " ", "import", " ", "x">> }

\* The files analysed after the first one.
AnalyzeFollowers ==
  { <<>>,
    << [path |-> "main.py", code |-> << <<"def", " ", "f", "(", "x", ")", ":", " ", "pass">> >>] >>,
    << [path |-> "main.py", code |-> << <<"import">>, <<"requests">> >>] >> }

\* fnIn is the list of files one CodeAnalyzer is given, fnOut the dicts it
\* has returned so far.
InitAnalyze ==
  /\ PipeIdle
  /\ phase = "analyzing"
  /\ \E first \in [path : {"main.py", "README.md"},
                    code : SeqsUpTo(AnalyzeLines, MaxCodeLines) \ {<<>>}],
        rest \in AnalyzeFollowers : fnIn = <<first>> \o rest
  /\ fnOut = <<>>

CallAnalyzeFile ==
  /\ phase = "analyzing"
  /\ Len(fnOut) < Len(fnIn)
  /\ \E r \in {analyze_file(fnIn[Len(fnOut) + 1].path, fnIn[Len(fnOut) + 1].code)} :
       /\ phase' = IF r.raised THEN "analysis_raised" ELSE phase
       /\ fnOut' = IF r.raised THEN fnOut ELSE Append(fnOut, r.value)
  /\ UNCHANGED <<pipeVars, fnIn>>

NextAnalyze == CallAnalyzeFile

SpecAnalyze == InitAnalyze /\ [][NextAnalyze]_vars

(* analyze_code *)

ScanPaths == {"main.py", "src/app.js", "main.go", "lib.rs", "README.md"}

ScanLines ==
  { <<"import", " ", "os">>,
    <<"import", " ", "requests">>,
    <<"from", " ", "flask", " ", "import", " ", "Flask">>,
    <<"import", " ", "os", ".", "path">>,
    <<"from", " ", "yaml", ".", "x", " ", "import", " ", "y">>,
    <<" ", " ", "import", " ", "json">>,
    <<"port", " ", "=", " ", "5000">>,
    <<"import", " ", "x", " ", "from", " ", "'", "react", "'">>,
    <<"import", " ", "y", " ", "from", " ", "'", "os", "'">>,
    <<"const", " ", "f", " ", "=", " ", "require", "(", "'", "fs", "'", ")">>,
    <<"require", "(", "\"", "express", "\"", ")">>,
    <<"xfrom", " ", "'", "path", "'">>,
    <<"import", " ", "\"", "fmt", "\"">>,
    <<"import", " ", "\"", "github", ".", "com", "/", "a", "\"">>,
    <<"import", " ", "\"", "golang", ".", "org", "/", "x", "\"">>,
    <<"use", " ", "std", ":", ":", "io", ";">>,
    <<"use", " ", "serde", ":", ":", "Deserialize", ";">>,
    <<"extern", " ", "crate", " ", "rand", ";">>,
    <<"extern", " ", "crate", " ", "core", ";">> }

InitScan ==
  /\ PipeIdle
  /\ phase = "call_analyze"
  /\ fnIn \in [path : ScanPaths, code : SeqsUpTo(ScanLines, MaxCodeLines) \ {<<>>}]
  /\ fnOut = None

CallAnalyze ==
  /\ phase = "call_analyze"
  /\ fnOut' = analyze_code(EmptyMap, fnIn.code, fnIn.path)
  /\ phase' = "ret_analyze"
  /\ UNCHANGED <<pipeVars, fnIn>>

NextScan == CallAnalyze

SpecScan == InitScan /\ [][NextScan]_vars

(* _generate_env_template *)

EnvLines ==
  { <<"PORT", "=", "5000">>,
    <<"SECRET_KEY", "=", "test123">>,
    <<" ", "KEY", " ", "=", " ", "s3cret">>,
    <<"URL", "=", "a", "=", "b">>,
    <<"EMPTY", "=">>,
    <<"#", " ", "comment">>,
    <<>> }

EnvValues == { <<"hunter2">>, <<"p", "=", "q">>, <<" ", "x", " ">>, <<>> }

InitEnv ==
  /\ PipeIdle
  /\ phase = "call_env"
  /\ \E c \in SeqsUpTo(EnvLines, MaxEnvLines) \ {<<>>} : fnIn = [a |-> c, b |-> c]
  /\ fnOut = None

\* The caller's other project: the same .env with one value changed.
ChangeValue(i, v) ==
  /\ phase = "call_env"
  /\ i \in 1..Len(fnIn.b)
  /\ Contains(fnIn.b[i], "=")
  /\ fnIn' = [fnIn EXCEPT !.b[i] = BeforeFirst(@, "=") \o <<"=">> \o v]
  /\ UNCHANGED <<pipeVars, phase, fnOut>>

CallEnvTemplate ==
  /\ phase = "call_env"
  /\ fnOut' = [a |-> env_template(fnIn.a), b |-> env_template(fnIn.b)]
  /\ phase' = "ret_env"
  /\ UNCHANGED <<pipeVars, fnIn>>

NextEnv ==
  \/ \E i \in 1..MaxEnvLines + 1, v \in EnvValues : ChangeValue(i, v)
  \/ CallEnvTemplate

SpecEnv == InitEnv /\ [][NextEnv]_vars

----------------------------------------------------------------------------
(* Claims *)

Count(s, x) == Cardinality({i \in 1..Len(s) : s[i] = x})

RecordedEco(types, d) == IF d \in DOMAIN types THEN types[d] ELSE "other"

\* C5: normalize_dependencies puts each distinct identifier of the raw list D
\* exactly once in the bucket of its recorded ecosystem ('other' when it is
\* untracked) and in no other bucket, and orders each bucket by first
\* occurrence in D.
C5_NormalizeDedupOrdered ==
  phase = "ret_normalize" =>
    LET D == fnIn.deps
        T == fnIn.types
        n == fnOut
    IN  /\ DOMAIN n = Ecosystems
        /\ \A e \in Ecosystems :
             /\ Range(n[e]) \subseteq Range(D)
             /\ \A d \in Range(D) :
                  Count(n[e], d) = IF RecordedEco(T, d) = e THEN 1 ELSE 0
             /\ \A i, j \in 1..Len(n[e]) :
                  i < j => IndexOf(D, n[e][i]) < IndexOf(D, n[e][j])

C5_Witness ==
  /\ phase = "ret_normalize"
  /\ \E i, j \in 1..Len(fnIn.deps) : i < j /\ fnIn.deps[i] = fnIn.deps[j]
  /\ Len(fnOut["pip"]) = 1
  /\ Len(fnOut["other"]) = 1

\* The exclusion set of the scanner that analyze_code picks for a path,
\* written from the source's sets, not from the scanner's test.
Excluded(path, d) ==
  CASE Ext(path) = ".py" -> Len(d) = 1 /\ d[1] \in PyStdlib
    [] Ext(path) \in {".js", ".jsx", ".ts", ".tsx"} -> Len(d) = 1 /\ d[1] \in JsStdlib
    [] Ext(path) = ".go" ->
         (\A k \in 1..Len(d) : d[k] # ".") \/ SubSeq(d, 1, 3) = <<"golang", ".", "org">>
    [] Ext(path) = ".rs" -> Len(d) = 1 /\ d[1] \in RustStdlib
    [] OTHER -> FALSE

OsThenRequests == << <<"import", " ", "os">>, <<"import", " ", "requests">> >>

\* C9: no scanner of analyze_code returns an identifier of its ecosystem's
\* exclusion set, and scanning the Python text 'import os\nimport requests'
\* returns exactly [requests].
C9_StdlibExcluded ==
  phase = "ret_analyze" =>
    /\ \A d \in Range(fnOut.deps) : ~Excluded(fnIn.path, d)
    /\ (fnIn.path = "main.py" /\ fnIn.code = OsThenRequests)
         => fnOut.deps = << <<"requests">> >>

C9_Witness ==
  /\ phase = "ret_analyze"
  /\ fnIn.path = "main.py"
  /\ fnIn.code = OsThenRequests
  /\ fnOut.deps = << <<"requests">> >>

\* The words of the values of a text: what follows the first '=' of a line.
ValueWords(content) ==
  UNION { {w \in Range(AfterFirst(content[i], "=")) : IsWord(w)} :
            i \in {k \in 1..Len(content) : Contains(content[k], "=")} }

\* The words of a text outside its values: keys, and lines without '='.
PlainWords(content) ==
  UNION { {w \in Range(BeforeFirst(content[i], "=")) : IsWord(w)} : i \in 1..Len(content) }

TestEnv == << <<"PORT", "=", "5000">>, <<"SECRET_KEY", "=", "test123">> >>

\* C6: .env redaction keeps every key, stripped of surrounding blanks, at its
\* line and replaces every value: each line holding '=' becomes
\* KEY=your_value_here, no word of a value survives in the template, and two
\* texts that differ only in their values give the same template.
C6_EnvRedaction ==
  phase = "ret_env" =>
    /\ \A pair \in {<<fnIn.a, fnOut.a>>, <<fnIn.b, fnOut.b>>} :
         LET x == pair[1]
             t == pair[2]
         IN  /\ \A i \in 1..Len(x) :
                  Contains(x[i], "=") =>
                    /\ Len(t) = Len(x)
                    /\ SubSeq(t[i], Len(t[i]) - 1, Len(t[i])) = <<"=", "your_value_here">>
                    /\ SubSeq(t[i], 1, Len(t[i]) - 2) = Strip(BeforeFirst(x[i], "="))
             /\ \A i \in 1..Len(t) :
                  Range(t[i]) \cap (ValueWords(x) \ PlainWords(x)) = {}
    /\ fnOut.a = fnOut.b
    /\ fnIn.a = TestEnv =>
         fnOut.a = << <<"PORT", "=", "your_value_here">>,
                      <<"SECRET_KEY", "=", "your_value_here">> >>

C6_Witness ==
  /\ phase = "ret_env"
  /\ fnIn.a = TestEnv
  /\ fnIn.b # fnIn.a
  /\ fnOut.a = fnOut.b

----------------------------------------------------------------------------
(* Claims on the pipeline *)

Returned == {"extracted", "exported", "reexported"}

Exported == {"exported", "reexported"}

\* C1: for every source directory that exists, extract() of the selected
\* detector returns, and export() on its result returns status "success".
C1_ExportSucceeds ==
  src_exists =>
    /\ phase # "extract_raised"
    /\ phase \in Exported => ret.status = "success"

\* The signs of a platform in a tree, as the detectors' documentation gives
\* them: a marker file, or for Base44 a package.json that mentions base44.
Base44Sign(t) ==
  \/ "base44.json" \in DOMAIN t
  \/ /\ "package.json" \in DOMAIN t
     /\ t["package.json"].readable
     /\ t["package.json"].content = PkgBase44

ReplitSign(t) == ".replit" \in DOMAIN t

\* C2: detect_platform returns an extractor class for every source path, the
\* same one for the same tree: a specific detector whose signs the tree holds
\* when it holds any (Base44 is asked before Replit), and the generic detector
\* when it holds none or the path does not exist.
C2_DetectTotalDeterministic ==
  phase # "setup" =>
    /\ selected \in {"Base44Extractor", "ReplitExtractor", "GenericExtractor"}
    /\ (src_exists /\ Base44Sign(tree)) => selected = "Base44Extractor"
    /\ (src_exists /\ ~Base44Sign(tree) /\ ReplitSign(tree)) => selected = "ReplitExtractor"
    /\ (~src_exists \/ (~Base44Sign(tree) /\ ~ReplitSign(tree))) => selected = "GenericExtractor"

C2_Witness ==
  /\ phase = "detected"
  /\ ReplitSign(tree)
  /\ "main.py" \in DOMAIN tree
  /\ selected = "ReplitExtractor"

\* C3: after a second export of the same result to the same directory every
\* output file holds what it held after the first.
C3_ExportIdempotent == phase = "reexported" => out = firstOut

\* C4: after export every file of the result is in the output directory under
\* its path with its content.
C4_FilesVerbatim ==
  phase \in Exported =>
    \A p \in DOMAIN result.files : p \in DOMAIN out /\ out[p] = result.files[p]

\* The trees of the scenario: a platform's marker file and one source file
\* with one external import.
ReplitScenario(t) ==
  /\ DOMAIN t = {".replit", "main.py"}
  /\ t[".replit"].readable /\ t["main.py"].readable
  /\ t["main.py"].content = PyRequests

Base44Scenario(t) ==
  /\ DOMAIN t = {"base44.json", "src/app.js"}
  /\ t["base44.json"].readable /\ t["src/app.js"].readable

ScenarioHolds(platform, source) ==
  /\ phase \in Returned
  /\ source \in DOMAIN result.files
  /\ result.files[source] = tree[source].content
  /\ Len(result.dependencies) = 1
  /\ result.metadata.platform = platform

\* C7: extract() on a tree of a platform's marker file and one source file
\* with one external import returns a result with that file in files, exactly
\* one dependency and the platform's identifier in metadata.
C7_MarkerScenario ==
  phase \notin {"setup", "detected"} =>
    /\ ReplitScenario(tree) => ScenarioHolds("replit", "main.py")
    /\ Base44Scenario(tree) => ScenarioHolds("base44", "src/app.js")

FlaskLine == <<"flask", "=", "=", "2", ".", "3", ".", "0">>

\* A tree without markers whose requirements.txt lists flask==2.3.0.
RequirementsScenario(t) ==
  /\ ~Base44Sign(t) /\ ~ReplitSign(t)
  /\ "requirements.txt" \in DOMAIN t
  /\ t["requirements.txt"].readable
  /\ FlaskLine \in Range(t["requirements.txt"].content)

\* C8: a tree without markers whose requirements.txt lists flask==2.3.0,
\* whatever else it holds, is extracted as generic with that line among the
\* dependencies, and the exported requirements.txt holds that line.
C8_RequirementsKept ==
  (RequirementsScenario(tree) /\ phase \in Returned) =>
    /\ result.metadata.platform = "generic"
    /\ FlaskLine \in Range(result.dependencies)
    /\ phase \in Exported =>
         /\ "requirements.txt" \in DOMAIN out
         /\ FlaskLine \in Range(out["requirements.txt"])

\* The files an extractor keeps in config as the platform's own and leaves
\* out of files.
PlatformConfig(cls) ==
  CASE cls = "ReplitExtractor" -> {".replit"}
    [] cls = "Base44Extractor" -> {"base44.json"}
    [] OTHER -> {}

Unreadable(t) == {p \in DOMAIN t : ~t[p].readable}

\* C10: when a file of the tree cannot be read, every file that can be read,
\* the platform's own configuration apart, is in the files of the result that
\* extract() returns, with its content, and export writes it to the output
\* directory.
C10_UnreadableIsolated ==
  (phase \in Returned /\ Unreadable(tree) # {}) =>
    \A p \in (DOMAIN tree \ Unreadable(tree)) \ PlatformConfig(selected) :
      /\ p \in DOMAIN result.files
      /\ result.files[p] = tree[p].content
      /\ phase \in Exported =>
           \E i \in 1..Len(writeLog) : writeLog[i] = Write(p, tree[p].content)

C10_Witness ==
  /\ phase = "exported"
  /\ Cardinality(Unreadable(tree)) = 1
  /\ \E p \in DOMAIN tree \ Unreadable(tree) :
       /\ \E i \in 1..Len(Walk(DOMAIN tree)) :
            Walk(DOMAIN tree)[i] \in Unreadable(tree) /\ Walk(DOMAIN tree)[i + 1] = p
       /\ \E i \in 1..Len(writeLog) : writeLog[i] = Write(p, tree[p].content)

\* C11: for a source directory that exists, no failure inside extract() or
\* export() reaches the caller as an exception: once extract() has been
\* called it has returned a result.
C11_NoExceptionEscapes ==
  (src_is_dir /\ phase \notin {"setup", "detected"}) => phase \in Returned

\* The paths export() wrote after its copy loop: the synthesized files.
GeneratedPaths ==
  {writeLog[i].path : i \in (Cardinality(DOMAIN result.files) + 1)..Len(writeLog)}

\* C12: export synthesizes package.json, requirements.txt, go.mod and
\* Cargo.toml exactly when the bucket npm, pip, go, cargo of the normalized
\* dependencies is not empty, and synthesizes docker-compose.yml,
\* .env.example, README.md, .gitignore and LICENSE on every export.
C12_ManifestsIffBucket ==
  phase \in Exported =>
    /\ "package.json" \in GeneratedPaths <=> ret.dependencies["npm"] # <<>>
    /\ "requirements.txt" \in GeneratedPaths <=> ret.dependencies["pip"] # <<>>
    /\ "go.mod" \in GeneratedPaths <=> ret.dependencies["go"] # <<>>
    /\ "Cargo.toml" \in GeneratedPaths <=> ret.dependencies["cargo"] # <<>>
    /\ {"docker-compose.yml", ".env.example", "README.md", ".gitignore", "LICENSE"}
         \subseteq GeneratedPaths
    /\ GeneratedPaths \subseteq DOMAIN out

C12_Witness ==
  /\ phase = "exported"
  /\ "package.json" \in DOMAIN result.files
  /\ "package.json" \notin GeneratedPaths
  /\ "go.mod" \in GeneratedPaths
  /\ "Cargo.toml" \in GeneratedPaths
  /\ "requirements.txt" \notin GeneratedPaths

\* The census of the result's files by extension: the files of a language.
Census(lang) ==
  Cardinality({p \in DOMAIN result.files : Ext(p) \in DOMAIN LangMap /\ LangMap[Ext(p)] = lang})

\* The languages with the most files, when any file has a language.
Dominant ==
  {l \in {LangMap[e] : e \in DOMAIN LangMap} :
     Census(l) > 0 /\ \A k \in {LangMap[e] : e \in DOMAIN LangMap} : Census(k) <= Census(l)}

\* The base image of the recipe of a language.
RecipeImage(lang) ==
  CASE lang = "python" -> "python:3.11-slim"
    [] lang \in {"javascript", "typescript"} -> "node:18-alpine"
    [] lang = "go" -> "golang:1.21-alpine"
    [] OTHER -> "none"

\* C13: export synthesizes exactly one Dockerfile, and its recipe is that of
\* the dominant language, the one with the most files in the result's files.
C13_DockerfileOfDominant ==
  phase \in Exported =>
    /\ Cardinality({i \in 1..Len(writeLog) : writeLog[i].path = "Dockerfile"}) = 1
    /\ \E l \in Dominant : out["Dockerfile"][1] = <<"FROM", " ", RecipeImage(l)>>

\* C14: a source path that does not exist or is no directory is rejected
\* before any extractor extracts and before anything is written to the
\* output directory, and export returns nothing for it.
C14_InvalidSourceRejected ==
  (~src_exists \/ ~src_is_dir) =>
    /\ phase \notin Returned \cup {"extract_raised"}
    /\ out = EmptyMap
    /\ ret = NoReturn

\* The key of config under which an extractor keeps its configuration file.
ConfigKey(cls) == IF cls = "ReplitExtractor" THEN "replit" ELSE "base44"

\* C15: extract() loses no readable file: every readable file of the tree is
\* in files with its content, except the platform's own configuration file,
\* whose content is kept in config.
C15_NoReadableFileLost ==
  phase \in Returned =>
    \A p \in DOMAIN tree \ Unreadable(tree) :
      IF p \in PlatformConfig(selected)
      THEN /\ ConfigKey(selected) \in DOMAIN result.config
           /\ <<result.config[ConfigKey(selected)].text>> = tree[p].content
      ELSE p \in DOMAIN result.files /\ result.files[p] = tree[p].content

\* The identifiers of the manifests in the order the selected extractor
\* reads them.
RawSightings ==
  CASE selected = "ReplitExtractor" ->
         RequirementsDeps(tree) \o PackageJsonDeps(tree) \o GoModDeps(tree)
    [] selected = "Base44Extractor" -> PackageJsonDeps(tree)
    [] OTHER -> PackageJsonDeps(tree) \o RequirementsDeps(tree) \o GoModDeps(tree)

\* C16: after extract() the result's dependencies hold no identifier twice
\* and list the identifiers in the order of their first sighting, whichever
\* manifests they come from.
C16_DependenciesDedupOrdered ==
  phase \in Returned =>
    LET deps == result.dependencies
    IN  /\ \A i, j \in 1..Len(deps) : i < j => deps[i] # deps[j]
        /\ Range(deps) = Range(RawSightings)
        /\ \A i, j \in 1..Len(deps) :
             i < j => IndexOf(RawSightings, deps[i]) < IndexOf(RawSightings, deps[j])

\* The ecosystem tag of the scanner that analyze_code picks for a path.
EcoOfPath(p) ==
  CASE Ext(p) = ".py" -> "pip"
    [] Ext(p) \in {".js", ".jsx", ".ts", ".tsx"} -> "npm"
    [] Ext(p) = ".go" -> "go"
    [] Ext(p) = ".rs" -> "cargo"
    [] OTHER -> "other"

\* The files of the result in the order export() scans them, and the
\* identifiers the scan of the i-th returns.
ScanOrder == Walk(DOMAIN result.files)

SightedAt(i) ==
  Range(analyze_code(EmptyMap, result.files[ScanOrder[i]], ScanOrder[i]).deps)

\* C17: an identifier that one analyzer scans under two ecosystems keeps the
\* tag of its first sighting: normalize_dependencies puts it in the bucket of
\* the ecosystem of the first file whose scan returned it.
C17_FirstSightingWins ==
  phase \in Exported =>
    \A i \in 1..Len(ScanOrder) :
      \A d \in SightedAt(i) :
        (\A j \in 1..(i - 1) : d \notin SightedAt(j))
          => d \in Range(ret.dependencies[EcoOfPath(ScanOrder[i])])

\* C18: when a file cannot be read during extract(), the file is skipped,
\* extraction goes on, and a message about it is appended to the result's
\* errors or warnings.
C18_UnreadableReported ==
  (phase \in Returned /\ Unreadable(tree) \ PlatformConfig(selected) # {}) =>
    /\ \A p \in Unreadable(tree) : p \notin DOMAIN result.files
    /\ Len(result.errors) + Len(result.warnings) > 0

\* C19: the generated README lists every dependency of every bucket of the
\* normalized dependencies that is not empty (npm, pip, go, cargo, other).
C19_ReadmeListsAllBuckets ==
  phase \in Exported =>
    \A e \in Ecosystems :
      \A d \in Range(ret.dependencies[e]) :
        \E i \in 1..Len(out["README.md"]) : out["README.md"][i] = <<"-", " ">> \o d

\* C20: export(R) leaves R.files, R.config, R.metadata, R.errors and
\* R.warnings as they were and at most appends to R.dependencies: what was
\* there stays, in its order.
C20_ExportFramesResult ==
  [][(phase \in {"extracted", "exported"} /\ phase' \in Exported) =>
       /\ result'.files = result.files
       /\ result'.config = result.config
       /\ result'.metadata = result.metadata
       /\ result'.errors = result.errors
       /\ result'.warnings = result.warnings
       /\ Len(result'.dependencies) >= Len(result.dependencies)
       /\ SubSeq(result'.dependencies, 1, Len(result.dependencies)) = result.dependencies]_vars

C20_Witness ==
  /\ phase = "exported"
  /\ result.files # EmptyMap
  /\ result.dependencies # <<>>
  /\ "env" \in DOMAIN result.config
  /\ ret.dependencies["pip"] # <<>>
  /\ writeLog # <<>>

\* The segments of a path text: the runs between separators.
IsSegment(k, i, j) ==
  /\ i <= j
  /\ i = 1 \/ SubSeq(k, i - 1, i - 1) = "/"
  /\ j = Len(k) \/ SubSeq(k, j + 1, j + 1) = "/"
  /\ \A n \in i..j : SubSeq(k, n, n) # "/"

\* C21: every key of the files an extractor produced is a path relative to
\* the source root: it does not begin with a path separator and none of its
\* segments is '..'.
C21_KeysRelative ==
  phase \in Returned =>
    \A k \in DOMAIN result.files :
      /\ Len(k) > 0
      /\ SubSeq(k, 1, 1) # "/"
      /\ \A i \in 1..Len(k) : \A j \in i..Len(k) :
           IsSegment(k, i, j) => SubSeq(k, i, j) # ".."

C21_Witness ==
  /\ phase = "extracted"
  /\ selected = "Base44Extractor"
  /\ {"src/app.js", "main.py"} \subseteq DOMAIN result.files
  /\ result.files["src/app.js"] = JsExpress

\* The order of consultation the claim names.
ConsultOrder == <<"Base44Extractor", "ReplitExtractor", "GenericExtractor">>

\* C22: detect_platform returns the first of Base44, Replit, Generic whose
\* detect() is true; a candidate that raises is passed over, the selection
\* going on to the next and to the generic fallback; a tree with a Base44
\* marker and a Replit marker selects Base44.
C22_FirstDetectorWins ==
  phase # "setup" =>
    /\ \E i \in 1..Len(ConsultOrder) :
         /\ selected = ConsultOrder[i]
         /\ \A j \in 1..(i - 1) : Probe(ConsultOrder[j], src_exists, tree) # "true"
         /\ \/ Probe(ConsultOrder[i], src_exists, tree) = "true"
            \/ /\ i = Len(ConsultOrder)
               /\ \A j \in 1..Len(ConsultOrder) :
                    Probe(ConsultOrder[j], src_exists, tree) = "raise"
    /\ ({"base44.json", ".replit"} \subseteq DOMAIN tree) => selected = "Base44Extractor"

C22_Witness ==
  /\ phase = "detected"
  /\ {"base44.json", ".replit", "main.py"} \subseteq DOMAIN tree
  /\ selected = "Base44Extractor"

\* The names export gives to what it synthesizes.
SynthesizedNames ==
  {"package.json", "requirements.txt", "go.mod", "Cargo.toml", "Dockerfile",
   "docker-compose.yml", ".env.example", "README.md", ".gitignore", "LICENSE"}

\* The identifiers in the buckets export returned.
Bucketed == UNION {Range(ret.dependencies[e]) : e \in Ecosystems}

\* C23: in an export every file of the result is scanned and written before
\* anything is synthesized: the writes of the files come first, the
\* synthesized files after them, and the manifests are generated from
\* buckets that hold what the scan of every file found.
C23_WriteBeforeSynthesize ==
  phase \in Exported =>
    LET n == Cardinality(DOMAIN result.files)
    IN  /\ Len(writeLog) > n
        /\ \A p \in DOMAIN result.files :
             \E i \in 1..n : writeLog[i] = Write(p, result.files[p])
        /\ \A j \in 1..n : writeLog[j].path \in DOMAIN result.files
        /\ \A j \in (n + 1)..Len(writeLog) : writeLog[j].path \in SynthesizedNames
        /\ \A p \in DOMAIN result.files :
             Range(analyze_code(EmptyMap, result.files[p], p).deps) \subseteq Bucketed
        /\ \A j \in (n + 1)..Len(writeLog) :
             /\ writeLog[j].path = "requirements.txt" => writeLog[j].content = ret.dependencies["pip"]
             /\ writeLog[j].path = "package.json" =>
                  writeLog[j].content = PackageJsonText(ret.dependencies["npm"])

C23_Witness ==
  /\ phase = "exported"
  /\ {"main.py", "src/app.js"} \subseteq DOMAIN result.files
  /\ <<"requests">> \in Range(ret.dependencies["pip"])
  /\ <<"express">> \in Range(ret.dependencies["npm"])
  /\ \E i, j \in 1..Len(writeLog) :
       /\ i < j
       /\ writeLog[i].path = "src/app.js"
       /\ writeLog[j].path = "package.json"

\* The identifiers the analyzer finds in the files of the result.
FoundInFiles ==
  UNION {Range(analyze_code(EmptyMap, result.files[p], p).deps) : p \in DOMAIN result.files}

\* C24: the dependencies export returns hold exactly the result's
\* manifest-derived dependencies and the identifiers the analyzer finds in
\* the result's files, each of them once across all the buckets.
C24_ReturnedIsUnion ==
  phase \in Exported =>
    /\ Bucketed = Range(result.dependencies) \cup FoundInFiles
    /\ \A d \in Bucketed :
         Count(ret.dependencies["npm"], d) + Count(ret.dependencies["pip"], d)
           + Count(ret.dependencies["go"], d) + Count(ret.dependencies["cargo"], d)
           + Count(ret.dependencies["other"], d) = 1

C24_Witness ==
  /\ phase = "exported"
  /\ FlaskLine \in Range(result.dependencies)
  /\ <<"requests">> \in FoundInFiles
  /\ <<"requests">> \notin Range(result.dependencies)
  /\ {FlaskLine, <<"requests">>} \subseteq Bucketed

\* The names of the dependency manifests.
ManifestNames == {"package.json", "requirements.txt", "go.mod", "Cargo.toml"}

\* The buckets an exporter that exported nothing before returns for the result.
BucketsAlone ==
  normalize_dependencies(ScanFiles(EmptyMap, result.files, Walk(DOMAIN result.files)).types,
                         listed)

\* C25: what export(R) returns and writes depends on R only: whatever the
\* same exporter exported before, every identifier of R lands in the bucket
\* it lands in with an exporter that exported nothing, and the same
\* manifests are written.
C25_ExportIndependentOfEarlier ==
  phase \in Exported =>
    /\ \A e \in Ecosystems : Range(ret.dependencies[e]) = Range(BucketsAlone[e])
    /\ {writeLog[j].path : j \in (Cardinality(DOMAIN result.files) + 1)..Len(writeLog)}
         \cap ManifestNames
       = {w.path : w \in Range(generate_config_files(BucketsAlone))}

C27_WorkerFinishes ==
  phase = "thread_ended" =>
    /\ fnOut[Len(fnOut)] = <<"finished", "Successfully liberated project!">>
    /\ \A i \in 1..Len(fnOut) : fnOut[i][1] # "error"
    /\ \E i, j, k \in 1..Len(fnOut) :
         /\ i < j /\ j < k
         /\ fnOut[i] = Progress("Detecting platform...")
         /\ fnOut[j] = Progress("Extracting files...")
         /\ fnOut[k] = Progress("Exporting to portable format...")

\* C28: the command 'extract' on an existing local directory, with an output
\* directory and no GitHub option, runs detection, extraction and export in
\* that order, reports the liberated project and ends with status 0.
C28_CliExtractSucceeds ==
  (phase = "cli_ended" /\ fnIn.source = "dir" /\ fnIn.github = "none") =>
    /\ fnOut.exit = 0
    /\ fnOut.steps = <<"detect", "extract", "export", "report">>

C29_AnalyzeFileTotal ==
  /\ phase # "analysis_raised"
  /\ phase = "analyzing" =>
       \A i \in 1..Len(fnOut) :
         /\ fnOut[i].file_path = fnIn[i].path
         /\ (fnIn[i].path = "main.py" /\ ~Parses(fnIn[i].code)) =>
              /\ fnOut[i].imports = LineStartMatches(fnIn[i].code, {"import", "from"}, FALSE, 1)
              /\ fnOut[i].functions = LineStartMatches(fnIn[i].code, {"def"}, TRUE, 1)
              /\ fnOut[i].classes = LineStartMatches(fnIn[i].code, {"class"}, TRUE, 1)
         /\ fnOut[i] = analyze_file(fnIn[i].path, fnIn[i].code).value
         /\ \A j \in 1..Len(fnOut) : fnIn[j] = fnIn[i] => fnOut[j] = fnOut[i]

C29_Witness ==
  /\ phase = "analyzing"
  /\ Len(fnOut) = 2
  /\ fnIn[1].path = "main.py"
  /\ fnIn[1].code = << <<"def", " ", "g", "(", ":">>, <<"from", " ", "flask", " ", "import", " ", "Flask">> >>
  /\ fnOut[1].functions = << <<"g">> >>
  /\ fnOut[1].imports = << <<"flask">> >>
  /\ fnOut[2].functions = << [name |-> <<"f">>, args |-> << <<"x">> >>, line |-> 1] >>

====
